---- MODULE Spec2Model ----
(***************************************************************************)
(* Model of src/userfolder/server.ts: a Deno std@0.95.0 HTTP server whose  *)
(* top-level `for await (const req of server)` loop dispatches each        *)
(* request by method and url to one of four branches and serves files      *)
(* from `${Deno.cwd()}/static`.                                            *)
(*                                                                         *)
(* A url is modelled by the sequence of its path segments after the        *)
(* leading "/": "/" is <<>>, "/main.js" is <<"main.js">>,                  *)
(* "/../secret.txt" is <<"..", "secret.txt">>.  A file-system path is a    *)
(* sequence of segments as well; the operating system's resolution of      *)
(* "", "." and ".." segments is the operator Normalize.                    *)
(***************************************************************************)
EXTENDS Integers, Sequences, FiniteSets, TLC

\* ---------------------------------------------------------------- bounds
\* Number of requests the listener accepts in one behaviour.
MaxReqs == 3

\* ------------------------------------------------------- request alphabet
Methods == {"GET", "POST"}

RootUrl    == <<>>
WsUrl      == <<"ws">>
FaviconUrl == <<"favicon.ico">>
MainUrl    == <<"main.js">>
IndexUrl   == <<"index.html">>
EscapeUrl  == <<"..", "secret.txt">>

Urls == {RootUrl, WsUrl, FaviconUrl, MainUrl, IndexUrl, EscapeUrl}

Requests == [method : Methods, url : Urls]

\* ------------------------------------------------------------ file system
\* Deno.cwd()
Cwd == <<"cwd">>

\* `${Deno.cwd()}/static`
StaticRoot == Cwd \o <<"static">>

IndexFile  == StaticRoot \o <<"index.html">>
MainFile   == StaticRoot \o <<"main.js">>
WsFile     == StaticRoot \o <<"ws">>
SecretFile == Cwd \o <<"secret.txt">>

\* Regular files that may or may not exist on disk.
AllFiles == {IndexFile, MainFile, WsFile, SecretFile}

FileContent(f) ==
  CASE f = IndexFile  -> "<html>hi</html>"
    [] f = MainFile   -> "console.log(1)"
    [] f = WsFile     -> "ws file"
    [] f = SecretFile -> "secret"
    [] OTHER          -> ""

\* Path resolution as the operating system does it when Deno.open and
\* Deno.stat are handed the path: empty and "." segments are skipped, a
\* ".." segment removes the segment before it (and stays at the top).
RECURSIVE Norm(_, _)
Norm(stack, rest) ==
  IF rest = <<>> THEN stack
  ELSE LET s == Head(rest) IN
       IF s = "" \/ s = "." THEN Norm(stack, Tail(rest))
       ELSE IF s = ".."
            THEN Norm(IF stack = <<>> THEN <<>>
                      ELSE SubSeq(stack, 1, Len(stack) - 1), Tail(rest))
            ELSE Norm(Append(stack, s), Tail(rest))

Normalize(path) == Norm(<<>>, path)

\* A resolved path lies strictly under the static root.
UnderRoot(f) ==
  /\ Len(f) > Len(StaticRoot)
  /\ SubSeq(f, 1, Len(StaticRoot)) = StaticRoot

\* const path = `${Deno.cwd()}/static/index.html`
RootPath == Cwd \o <<"static", "index.html">>

\* const path = `${Deno.cwd()}/static/${req.url}`: req.url starts with "/",
\* so an empty segment sits between "static" and the url's segments.
StaticPath(url) == Cwd \o <<"static", "">> \o url

\* ---------------------------------------------------------------- routing
\* The if / else if chain of the loop body; the first matching branch wins.
Route_NoFavicon(req) ==
  IF req.method = "GET" /\ req.url = RootUrl THEN "root"
  ELSE IF req.method = "GET" /\ req.url = WsUrl THEN "ws"
  ELSE "static"

Route_NoRoot(req) ==
  IF req.method = "GET" /\ req.url = WsUrl THEN "ws"
  ELSE IF req.method = "GET" /\ req.url = FaviconUrl THEN "favicon"
  ELSE "static"

Route(req) ==
  IF req.method = "GET" /\ req.url = RootUrl THEN "root"
  ELSE IF req.method = "GET" /\ req.url = WsUrl THEN "ws"
  ELSE IF req.method = "GET" /\ req.url = FaviconUrl THEN "favicon"
  ELSE "static"

\* The path a branch hands to serveFile.
PathOf(branch, req) ==
  IF branch = "root" THEN RootPath ELSE StaticPath(req.url)

\* The file serveFile(req, path) opens.
Target(branch, req) == Normalize(PathOf(branch, req))

\* serveFile's result for an existing regular file: status 200 and the
\* file as the body.
ServeFile_WrongBody(f) == [status |-> 200, body |-> FileContent(IndexFile)]

ServeFile(f) == [status |-> 200, body |-> FileContent(f)]

\* ------------------------------------------------------------------ state
VARIABLES
  files,       \* the regular files that exist on disk
  requests,    \* requests yielded by the server, in arrival order
  dispatched,  \* branch taken by each request the loop has classified
  pc,          \* loop position: "accept", "await", "crashed"
  opens,       \* <<i, f>>: request i's handler called serveFile on file f
  reads,       \* <<i, f>>: request i's handler opened file f successfully
  sent,        \* sent[i]: responses req.respond was invoked with
  received     \* received[i]: responses written to request i's client

vars == <<files, requests, dispatched, pc, opens, reads, sent, received>>

\* ------------------------------------------------------------------- Init
Init ==
  /\ files \in SUBSET AllFiles
  /\ requests = <<>>
  /\ dispatched = <<>>
  /\ pc = "accept"
  /\ opens = {}
  /\ reads = {}
  /\ sent = <<>>
  /\ received = <<>>

\* ---------------------------------------------------------------- helpers
\* The request the loop body is running for.
Cur_Latest == Len(requests)

Cur == Len(dispatched)

\* The loop is at `for await`, ready to take the next request.
CanAccept_NoAwait == pc # "crashed"

CanAccept == pc = "accept"

\* ---------------------------------------------------------------- actions
\* A client's request reaches the listening server and is queued.
Arrive(m, u) ==
  /\ pc # "crashed"
  /\ Len(requests) < MaxReqs
  /\ requests' = Append(requests, [method |-> m, url |-> u])
  /\ sent' = Append(sent, <<>>)
  /\ received' = Append(received, <<>>)
  /\ UNCHANGED <<files, dispatched, pc, opens, reads>>

\* Lines 9-13 and 22-26 up to the await: the branch computes its path and
\* calls serveFile, which opens the file; the loop suspends.
BeginServe(branch) ==
  /\ CanAccept
  /\ Len(dispatched) < Len(requests)
  /\ LET i   == Len(dispatched) + 1
         req == requests[i]
     IN /\ Route(req) = branch
        /\ dispatched' = Append(dispatched, branch)
        /\ opens' = opens \cup {<<i, Target(branch, req)>>}
  /\ pc' = "await"
  /\ UNCHANGED <<files, requests, reads, sent, received>>

RootBranch == BeginServe("root")

ElseBranch == BeginServe("static")

\* Lines 14-18 and 19-21: the branch body is empty (comments only); the
\* loop goes straight on to the next request.
EmptyBranch(branch) ==
  /\ CanAccept
  /\ Len(dispatched) < Len(requests)
  /\ Route(requests[Len(dispatched) + 1]) = branch
  /\ dispatched' = Append(dispatched, branch)
  /\ UNCHANGED <<files, requests, pc, opens, reads, sent, received>>

WsBranch == EmptyBranch("ws")

FaviconBranch == EmptyBranch("favicon")

\* The awaited serveFile resolves for an existing regular file and
\* req.respond(content) is invoked (not awaited); the loop continues.
ServeFileOk ==
  /\ pc = "await"
  /\ LET i == Len(dispatched)
         f == Target(dispatched[i], requests[i])
     IN /\ f \in files
        /\ reads' = reads \cup {<<i, f>>}
        /\ sent' = [sent EXCEPT ![Cur] = Append(@, ServeFile(f))]
  /\ pc' = "accept"
  /\ UNCHANGED <<files, requests, dispatched, opens, received>>

\* The awaited serveFile rejects (Deno.open / Deno.stat: NotFound), or the
\* target is a directory whose body cannot be read.  Nothing catches the
\* error in the top-level loop: the process terminates.
ServeFileThrows ==
  /\ pc = "await"
  /\ Target(dispatched[Len(dispatched)], requests[Len(dispatched)]) \notin files
  /\ pc' = "crashed"
  /\ UNCHANGED <<files, requests, dispatched, opens, reads, sent, received>>

\* The response passed to req.respond is written to the client's
\* connection; this runs in the background while the loop goes on, and
\* stops when the process terminates.
Deliver(i) ==
  /\ pc # "crashed"
  /\ i \in 1..Len(sent)
  /\ Len(received[i]) < Len(sent[i])
  /\ received' = [received EXCEPT ![i] = Append(@, sent[i][Len(@) + 1])]
  /\ UNCHANGED <<files, requests, dispatched, pc, opens, reads, sent>>

Next ==
  \/ \E m \in Methods, u \in Urls : Arrive(m, u)
  \/ RootBranch
  \/ WsBranch
  \/ FaviconBranch
  \/ ElseBranch
  \/ ServeFileOk
  \/ ServeFileThrows
  \/ \E i \in 1..MaxReqs : Deliver(i)

Spec == Init /\ [][Next]_vars

\* ------------------------------------------------------ claim vocabulary
\* The loop body has run to its end for request i (by falling through, by
\* invoking respond, or by the uncaught rejection).
Ended(i) ==
  \/ i < Len(dispatched)
  \/ i = Len(dispatched) /\ pc # "await"

\* The loop body ran to its end for request i and the loop went on.
Completed(i) ==
  \/ i < Len(dispatched)
  \/ i = Len(dispatched) /\ pc = "accept"

\* The file a request for url names: `<static root>/<url>`.
OwnFile(url) ==
  IF url = RootUrl THEN IndexFile ELSE Normalize(StaticPath(url))

\* The url has a ".." segment and resolves outside the static root.
Escapes(url) ==
  /\ \E k \in 1..Len(url) : url[k] = ".."
  /\ ~UnderRoot(Normalize(StaticPath(url)))

IsGet(i, url) == requests[i].method = "GET" /\ requests[i].url = url

Opened(i) == {o \in opens : o[1] = i}

\* ----------------------------------------------------------------- claims
\* C1: every request whose handling has ended has exactly one response,
\* and no request ever has more than one.
C1_ExactlyOneResponse ==
  \A i \in 1..Len(requests) :
    /\ Len(sent[i]) <= 1
    /\ Ended(i) => Len(sent[i]) = 1

\* C2: a GET for a path that does not exist under the static root is
\* answered with a 404, and the server does not crash.
C2_MissingIs404 ==
  \A i \in 1..Len(dispatched) :
    LET req == requests[i]
        f   == Normalize(StaticPath(req.url))
    IN (/\ req.method = "GET"
        /\ req.url \notin {RootUrl, FaviconUrl}
        /\ UnderRoot(f)
        /\ f \notin files
        /\ Ended(i))
       => /\ pc # "crashed"
          /\ Len(sent[i]) = 1
          /\ sent[i][1].status = 404

\* C3: a request whose path escapes the static root through ".." segments
\* is answered 400 or 403, and no file outside the static root is read.
C3_TraversalRejected ==
  /\ \A r \in reads : UnderRoot(r[2])
  /\ \A i \in 1..Len(dispatched) :
       Escapes(requests[i].url)
       => /\ \A k \in 1..Len(sent[i]) : sent[i][k].status \in {400, 403}
          /\ Completed(i) => Len(sent[i]) = 1

\* C4: a per-request error never terminates the process, so requests that
\* arrive after a failing one are still dispatched.
C4_ErrorsNeverTerminate == pc # "crashed"

\* C5: a request whose method is not GET is answered 404 or 405 and is
\* never served a file's contents.
C5_NonGetRejected ==
  \A i \in 1..Len(dispatched) :
    requests[i].method # "GET"
    => /\ \A k \in 1..Len(sent[i]) : sent[i][k].status \in {404, 405}
       /\ Completed(i) => Len(sent[i]) = 1

C7_EveryPathButTwo ==
  \A i \in 1..Len(dispatched) :
    LET req == requests[i]
        f   == Normalize(StaticPath(req.url))
    IN (/\ req.method = "GET"
        /\ req.url \notin {RootUrl, FaviconUrl}
        /\ UnderRoot(f)
        /\ f \in files
        /\ Ended(i))
       => sent[i] = <<[status |-> 200, body |-> FileContent(f)]>>

\* C7 (amended): for every file p under the static root, a dispatched
\* GET /p gets 200 and exactly the content of root/p, for every p but the
\* three special paths "/", "/favicon.ico" and "/ws".
C7_EveryPathButThree ==
  \A i \in 1..Len(dispatched) :
    LET req == requests[i]
        f   == Normalize(StaticPath(req.url))
    IN (/\ req.method = "GET"
        /\ req.url \notin {RootUrl, FaviconUrl, WsUrl}
        /\ UnderRoot(f)
        /\ f \in files
        /\ Ended(i))
       => sent[i] = <<[status |-> 200, body |-> FileContent(f)]>>

C7_Witness ==
  \E i \in 1..Len(dispatched) :
    /\ IsGet(i, MainUrl)
    /\ MainFile \in files
    /\ Ended(i)
    /\ received[i] = <<[status |-> 200, body |-> FileContent(MainFile)]>>

\* C8: a GET / is handled by the root branch and by no other, and when the
\* root document exists it is answered 200 with static/index.html,
\* whatever other files exist.
C8_RootDocument ==
  \A i \in 1..Len(dispatched) :
    IsGet(i, RootUrl)
    => /\ dispatched[i] = "root"
       /\ Opened(i) = {<<i, IndexFile>>}
       /\ (IndexFile \in files /\ Ended(i))
          => sent[i] = <<[status |-> 200, body |-> FileContent(IndexFile)]>>

C8_Witness ==
  \E i \in 1..Len(dispatched) :
    /\ IsGet(i, RootUrl)
    /\ files = {IndexFile}
    /\ Ended(i)
    /\ Len(sent[i]) = 1

C10_OneAtATime ==
  [][dispatched' # dispatched
     => /\ pc = "accept"
        /\ Len(dispatched') = Len(dispatched) + 1
        /\ SubSeq(dispatched', 1, Len(dispatched)) = dispatched
        /\ Len(dispatched) >= 1
           => \/ dispatched[Len(dispatched)] \in {"ws", "favicon"}
              \/ Len(sent[Len(dispatched)]) = 1]_vars

\* A later request waits behind a pending file read.
C10_Witness ==
  /\ pc = "await"
  /\ Len(dispatched) >= 2
  /\ Len(requests) > Len(dispatched)
  /\ Len(sent[1]) = 1

====
